---------------------------- MODULE Spec2Model ----------------------------
(***************************************************************************)
(* Model of canvas-eval-2 (src/app.ts): the program's two paths (evaluate  *)
(* and upload, or upload of a saved document), the discovery of the        *)
(* rubric association in graphql(), the evaluate() loop over the           *)
(* submissions and the rubric criteria, the child process harness and the  *)
(* stdout/stderr multiplexer that mirrors the child's output to the        *)
(* console through the writePromise chain, and upload().                   *)
(*                                                                         *)
(* Text is a sequence of code points, a buffer a sequence of bytes.        *)
(* Every await of the source is a position of pc or of one of the three    *)
(* concurrent closures (stdoutPromise, stderrPromise, stdinPromise); an    *)
(* action is the code that runs between two awaits.  A call of             *)
(* Deno.stdout.write is in flight from its call until it completes; the    *)
(* sink takes the writes in flight one at a time, in either order when     *)
(* two of them are in flight together.                                     *)
(***************************************************************************)
EXTENDS Integers, Sequences, FiniteSets, TLC

(***************************************************************************)
(* Bounds of the model                                                     *)
(***************************************************************************)
\* submissions returned by the query (Spec)
NSub == 2
\* criteria of the rubric (Spec)
NCrit == 2
\* chunks the child writes, to stdout and to stderr together (SpecMux)
MaxChunks == 3
\* attachments of one submission
MaxAtt == 1
\* records of the document read from the file args.input names
MaxRecords == 2

(***************************************************************************)
(* Bytes and code points                                                   *)
(***************************************************************************)
LF == 10
CR == 13
SP == 32
\* U+FFFD, what TextDecoder puts for a malformed sequence
Replacement == 65533
\* U+2008, the substitute of a leading space in the comments
PunctSpace == 8200

\* "[00/00 #0] ".replace(/./g, " "): eleven spaces
PadLen == 11
writePad == [i \in 1..PadLen |-> SP]

\* the chunks a read of the child's stdout returns: the child prints
\* U+00E9 and a newline (0xC3 0xA9 0x0A), which arrive in two reads
OutChunks == { <<195>>, <<169, LF>> }
\* the chunks a read of the child's stderr returns: "b", "b\n"
ErrChunks == { <<98>>, <<98, LF>> }

\* what console.log and console.dir print, abbreviated: visible text ended
\* by a newline
LogLine == <<76, LF>>
\* `[processed ${bytesRead} bytes from stdout]`, abbreviated: visible text,
\* no newline
ProcessedLog == <<91, 93>>

RECURSIVE Flatten(_)
Flatten(ss) == IF ss = <<>> THEN <<>> ELSE Head(ss) \o Flatten(Tail(ss))

\* new TextDecoder().decode(buf): UTF-8, not streaming, not fatal.  Lead
\* bytes of three and four byte sequences do not occur in the chunks.
RECURSIVE Decode(_)
Decode(b) ==
    IF b = <<>> THEN <<>>
    ELSE IF b[1] < 128 THEN <<b[1]>> \o Decode(Tail(b))
    ELSE IF b[1] \in 194..223 /\ Len(b) >= 2 /\ b[2] \in 128..191
         THEN <<(b[1] - 192) * 64 + (b[2] - 128)>> \o Decode(Tail(Tail(b)))
    ELSE <<Replacement>> \o Decode(Tail(b))

\* new TextEncoder().encode(s), for the Basic Multilingual Plane
RECURSIVE Encode(_)
Encode(t) ==
    IF t = <<>> THEN <<>>
    ELSE LET c == t[1] IN
         (IF c < 128 THEN <<c>>
          ELSE IF c < 2048 THEN <<192 + (c \div 64), 128 + (c % 64)>>
          ELSE <<224 + (c \div 4096), 128 + ((c \div 64) % 64), 128 + (c % 64)>>)
         \o Encode(Tail(t))

\* s.replace(/\n/g, "\n" + writePad)
RECURSIVE PadNewlines(_)
PadNewlines(t) ==
    IF t = <<>> THEN <<>>
    ELSE IF t[1] = LF THEN <<LF>> \o writePad \o PadNewlines(Tail(t))
    ELSE <<t[1]>> \o PadNewlines(Tail(t))

\* output.replace(/^ +/mg, s => ' '.repeat(s.length)): with /m, ^ is
\* the start of the text or the position after a line terminator
LineTerminators == {LF, CR, 8232, 8233}
RECURSIVE ThinLead(_, _)
ThinLead(t, lead) ==
    IF t = <<>> THEN <<>>
    ELSE IF lead /\ t[1] = SP THEN <<PunctSpace>> \o ThinLead(Tail(t), TRUE)
    ELSE <<t[1]>> \o ThinLead(Tail(t), t[1] \in LineTerminators)
Comments(output) == ThinLead(output, TRUE)

\* "<br/>\r\n"
Break == <<60, 98, 114, 47, 62, CR, LF>>
\* line 485: longDescription.replace(/<br\/>\r\n/g, "\n")
RECURSIVE Unbreak(_)
Unbreak(t) ==
    IF t = <<>> THEN <<>>
    ELSE IF Len(t) >= Len(Break) /\ SubSeq(t, 1, Len(Break)) = Break
         THEN <<LF>> \o Unbreak(SubSeq(t, Len(Break) + 1, Len(t)))
    ELSE <<t[1]>> \o Unbreak(Tail(t))

\* Number.prototype.toString() of a non-negative integer, as its digits
Digit(d) == <<"0", "1", "2", "3", "4", "5", "6", "7", "8", "9">>[d + 1]
RECURSIVE toString(_)
toString(n) ==
    IF n < 10 THEN <<Digit(n)>> ELSE toString(n \div 10) \o <<Digit(n % 10)>>

\* parseInt(id) of a string of decimal digits
DigitValue(ch) == CHOOSE d \in 0..9 : Digit(d) = ch
RECURSIVE parseInt(_)
parseInt(str) ==
    IF Len(str) = 1 THEN DigitValue(str[1])
    ELSE parseInt(SubSeq(str, 1, Len(str) - 1)) * 10 + DigitValue(str[Len(str)])

RECURSIVE Sum(_)
Sum(ns) == IF ns = <<>> THEN 0 ELSE Head(ns) + Sum(Tail(ns))

(***************************************************************************)
(* Input data: the answer of the GraphQL query, lines 84-107               *)
(***************************************************************************)
\* n submissions, of the users "7", "14", ...
Submissions(n) == [i \in 1..n |-> [user |-> toString(7 * i)]]
\* a rubric of n criteria: 3 points for the first one, 2 for the others;
\* every criterion has the long description text
Rubric(n, text) ==
    [c \in 1..n |-> [points |-> IF c = 1 THEN 3 ELSE 2,
                     longDescription |-> text]]
\* long descriptions: "x" and "<br/>\r\ny"
ShortText == <<120>>
LongText == Break \o <<121>>
\* the rubric association ids of the assessments of n submissions: every
\* submission has no assessment or one, of the association "7" or "8"
Assessments(n) == [1..n -> { <<>>, << <<"7">> >>, << <<"8">> >> }]
NoAssessments(n) == [i \in 1..n |-> <<>>]
\* display names of attachments
DisplayNames == { <<"a">>, <<"a", "/", "b">> }
\* exit codes of the child
ExitCodes == 0..2

\* rubricAssociationId: number | undefined
Undefined == [defined |-> FALSE, id |-> 0]
Defined(id) == [defined |-> TRUE, id |-> id]
\* Truthy that takes undefined for an id
TruthyAlways(a) == TRUE
\* lines 193, 198, 227: the truth value of an id
Truthy(a) == a.defined /\ a.id # 0

\* records of the document read from the file: the user "7" with 3 and 0
\* points, the user "14" with 3 and 2 points
FileRecord(userId, points) ==
    [user_id |-> userId, assessment_type |-> "grading",
     criterion |-> [c \in 1..Len(points) |->
                      [points |-> points[c], comments |-> <<>>]]]
FileRecords == { FileRecord(<<"7">>, <<3, 0>>), FileRecord(<<"1", "4">>, <<3, 2>>) }
\* SerializedIntermediateData (lines 46-52) of at most n records
InputFiles(ids, n) ==
    { [rubricAssociationId |-> a, assessmentOutputDataList |-> l] :
        a \in ids, l \in UNION { [1..k -> FileRecords] : k \in 0..n } }
NoFile == [rubricAssociationId |-> Undefined, assessmentOutputDataList |-> <<>>]

VARIABLES
    nodes,                 \* data.assignment.submissionsConnection.nodes
    criteria,              \* data.assignment.rubric.criteria
    verbose,               \* args.verbose
    users,                 \* --user: [defined, list of numbers]
    exceptUsers,           \* --except-user: list of numbers
    pc,                    \* position of evaluate()
    submissionDataI,       \* index of the submission, from 1
    criteriaDataI,         \* index of the criterion, from 1
    workDirs,              \* the temporary directories that exist
    assessmentOutputData,  \* the record of the current submission
    assessmentOutputDataList,
    error,                 \* the exception in flight, "none" if none
    attachments,           \* submissionRestData.attachments
    attI,                  \* index of the attachment, from 1
    output,                \* captured text of the child's stdout
    chain,                 \* writePromise: callbacks not yet started
    chainRun,              \* writePromise: the callback that is running
    chainVal,              \* writePromise: {clean, bytesWritten} last resolved
    inflight,              \* calls of Deno.stdout.write not yet completed
    outReader,             \* stdoutPromise: "read", "dbg", "eof"; "none"
    errReader,             \* stderrPromise: "read", "dbg", "eof"; "none"
    stdinP,                \* stdinPromise: "writing", "closed", "failed";
                           \* "none" when there is no child
    status,                \* exit code of the criterion's child, -1 if none
    screen,                \* the console's current line: has it visible
                           \* text, is the cursor at its start
    termLine,              \* the current line right after the terminator
    consoleOut,            \* what the console got for stdout, this criterion
    consoleErr,            \* what the console got for stderr, this criterion
    readOut,               \* chunks read from stdout for this criterion
    readErr,               \* chunks read from stderr for this criterion
    chunksLeft,            \* chunks the children may still write
    input,                 \* args.input is given: upload only
    outputArg,             \* args.output is given
    dryRun,                \* args["dry-run"]
    assessed,              \* per submission, the rubric association ids of
                           \* its rubricAssessmentsConnection.nodes
    fileData,              \* the document in the file args.input names
    rubricAssociationId,   \* [defined, id]: what graphql() returned, or the
                           \* id of the document read from the file
    uploadList,            \* upload(): data.assessmentOutputDataList
    uploadId,              \* upload(): data.rubricAssociationId, 0 before
                           \* the call
    uploadI,               \* upload(): index of the loop, from 1
    posted,                \* the records POSTed to the grading endpoint
    results,               \* upload(): results
    errors,                \* upload(): errors
    files,                 \* the files written by Deno.writeTextFile
    exitCode,              \* exit code of the program, -1 while it runs
    messages,              \* console messages about discovery, dropped
                           \* units and the upload
    children,              \* child processes started and not yet reaped
    stdinBytes,            \* the bytes the child's stdin accepted
    inputFailureLogged     \* "Failed writing process input" was printed

config == <<nodes, criteria, verbose, users, exceptUsers, input, outputArg,
            dryRun, assessed, fileData>>
uploadVars == <<rubricAssociationId, uploadList, uploadId, uploadI, posted, results,
                errors, files, exitCode>>
childVars == <<children, stdinBytes, inputFailureLogged>>
loopVars == <<submissionDataI, criteriaDataI, attachments, attI>>
muxVars == <<output, chain, chainRun, chainVal, inflight, outReader,
             errReader, stdinP, screen, termLine, consoleOut, consoleErr,
             readOut, readErr>>
vars == <<nodes, criteria, verbose, users, exceptUsers, pc, submissionDataI, criteriaDataI,
          workDirs, assessmentOutputData, assessmentOutputDataList, error,
          attachments, attI, output, chain, chainRun, chainVal, inflight,
          outReader, errReader, stdinP, status, screen, termLine, consoleOut,
          consoleErr, readOut, readErr, chunksLeft, input, outputArg, dryRun,
          assessed, fileData, rubricAssociationId, uploadList, uploadId, uploadI,
          posted, results, errors, files, exitCode, messages, children,
          stdinBytes, inputFailureLogged>>

FreshLine == [visible |-> FALSE, col0 |-> TRUE]

\* the console after it received bytes: a line feed starts an empty line,
\* a carriage return moves the cursor to the start of the current line
RECURSIVE Render(_, _)
Render(line, bytes) ==
    IF bytes = <<>> THEN line
    ELSE Render(IF bytes[1] = LF THEN FreshLine
                ELSE IF bytes[1] = CR THEN [line EXCEPT !.col0 = TRUE]
                ELSE IF bytes[1] = SP THEN [line EXCEPT !.col0 = FALSE]
                ELSE [visible |-> TRUE, col0 |-> FALSE],
                Tail(bytes))

\* the sink takes the write w, then what console.log prints right after it
Lands(w, log) ==
    /\ screen' = Render(Render(screen, w.bytes), log)
    /\ consoleOut' = IF w.src = "out" THEN Append(consoleOut, w.bytes)
                     ELSE consoleOut
    /\ consoleErr' = IF w.src = "err" THEN Append(consoleErr, w.bytes)
                     ELSE consoleErr

\* a console message: what it is about, the user it names, its numbers
Message(msg, userId, n, total) ==
    [msg |-> msg, user |-> userId, n |-> n, of |-> total]
\* line 356: `... Skipping submission ... by ...`
Skipping(userId) == Message("Skipping submission", userId, 0, 0)
\* line 548: `Filtered out user ${assessmentOutputData.user_id}`
FilteredOutUser(userId) == Message("Filtered out user", userId, 0, 0)
\* line 575: `Would upload assessment of ${points} points for ${user_id}`
WouldUpload(points, userId) == Message("Would upload assessment", userId, points, 0)
\* line 605: `Upload finished (${errors.length} failed of ${length}).`
UploadFinished(failed, total) == Message("Upload finished", <<>>, failed, total)
\* lines 321-323, 325-326 and 330: the warnings of the discovery
NoAssessmentYet == Message("No assessment for the assignment yet", <<>>, 0, 0)
MultipleIds == Message("Multiple rubric association IDs found", <<>>, 0, 0)
UploadImpossible == Message("Uploading evaluation results is impossible", <<>>, 0, 0)

NoTask == [src |-> "none", n |-> 0, buf |-> <<>>]
NoRecord == [user_id |-> <<>>, assessment_type |-> "grading", criterion |-> <<>>]

\* FilteredOut with the deny-list consulted only when no allow-list is given
FilteredOutAllowFirst(userId) ==
    IF users.defined
    THEN \A i \in 1..Len(users.list) : toString(users.list[i]) # userId
    ELSE \E i \in 1..Len(exceptUsers) : toString(exceptUsers[i]) = userId

\* line 354 and line 547: the allow/deny predicate on a user id
FilteredOut(userId) ==
    \/ users.defined /\ \A i \in 1..Len(users.list) : toString(users.list[i]) # userId
    \/ \E i \in 1..Len(exceptUsers) : toString(exceptUsers[i]) = userId

\* line 386: displayName.match('/|\/')
HasSlash(displayName) == \E i \in 1..Len(displayName) : displayName[i] = "/"

\* Points with the exit code taken for the success flag
PointsOnCode(code, c) == IF code # 0 THEN criteria[c].points ELSE 0

\* line 513: status.success ? criteriaData.points : 0
Points(code, c) == IF code = 0 THEN criteria[c].points ELSE 0

\* RemoveDir outside a finally block: skipped when an exception is in flight
RemoveDirOnSuccess(dirs, d) == IF error = "none" THEN dirs \ {d} ELSE dirs

\* line 521: Deno.remove(workDir, {recursive: true})
RemoveDir(dirs, d) == dirs \ {d}

\* the state when the program reaches line 189, but for the input data, the
\* other arguments and the children's output
Start ==
    /\ verbose \in BOOLEAN
    /\ users \in { [defined |-> FALSE, list |-> <<>>],
                   [defined |-> TRUE, list |-> <<7>>] }
    /\ exceptUsers \in { <<>>, <<7>> }
    /\ pc = "main"
    /\ rubricAssociationId = Undefined
    /\ uploadList = <<>>
    /\ uploadId = 0
    /\ uploadI = 1
    /\ posted = <<>>
    /\ results = <<>>
    /\ errors = <<>>
    /\ files = {}
    /\ exitCode = -1
    /\ messages = <<>>
    /\ children = {}
    /\ stdinBytes = <<>>
    /\ inputFailureLogged = FALSE
    /\ submissionDataI = 1
    /\ criteriaDataI = 1
    /\ workDirs = {}
    /\ assessmentOutputData = NoRecord
    /\ assessmentOutputDataList = <<>>
    /\ error = "none"
    /\ attachments = <<>>
    /\ attI = 1
    /\ output = <<>>
    /\ chain = <<>>
    /\ chainRun = NoTask
    /\ chainVal = [clean |-> TRUE, bytesWritten |-> 0]
    /\ inflight = {}
    /\ outReader = "none"
    /\ errReader = "none"
    /\ stdinP = "none"
    /\ status = -1
    /\ screen = FreshLine
    /\ termLine = FreshLine
    /\ consoleOut = <<>>
    /\ consoleErr = <<>>
    /\ readOut = <<>>
    /\ readErr = <<>>

\* the arguments of an evaluation whose plan goes to the console or, in
\* verbose mode, to assessment-plan.json; no submission is assessed yet
EvaluateOnly ==
    /\ input = FALSE
    /\ fileData = NoFile
    /\ outputArg = FALSE
    /\ dryRun = FALSE
    /\ assessed = NoAssessments(Len(nodes))

\* the arguments of an upload of a document that names its rubric
\* association
UploadOnly ==
    /\ input = TRUE
    /\ fileData \in InputFiles({Defined(7)}, MaxRecords)
    /\ outputArg \in BOOLEAN
    /\ dryRun \in BOOLEAN
    /\ assessed = NoAssessments(Len(nodes))

\* a run over NSub submissions and NCrit criteria; the children write at
\* most one chunk over the run; a verbose run has an allow-list
Init ==
    /\ nodes = Submissions(NSub)
    /\ criteria = Rubric(NCrit, ShortText)
    /\ chunksLeft = 1
    /\ Start
    /\ (EvaluateOnly \/ UploadOnly)
    /\ verbose => users.defined

\* a run over one submission and one criterion; the child writes at most
\* MaxChunks chunks
InitMux ==
    /\ nodes = Submissions(1)
    /\ criteria = Rubric(1, LongText)
    /\ chunksLeft = MaxChunks
    /\ Start
    /\ (EvaluateOnly \/ UploadOnly)

\* a run of the whole program, with any arguments and any assessments,
\* over NSub submissions and one criterion; the children write nothing, or
\* one chunk in an evaluation with an allow-list
InitMain ==
    /\ nodes = Submissions(NSub)
    /\ criteria = Rubric(1, ShortText)
    /\ Start
    /\ input \in BOOLEAN
    /\ fileData \in IF input THEN InputFiles({Undefined, Defined(7)}, MaxRecords)
                    ELSE {NoFile}
    /\ outputArg \in BOOLEAN
    /\ dryRun \in BOOLEAN
    /\ assessed \in Assessments(Len(nodes))
    /\ chunksLeft \in {0, 1}
    /\ chunksLeft = 1 => EvaluateOnly /\ users.defined

\* a run over one submission and two criteria; the children write at most
\* one chunk over the run
InitLive ==
    /\ nodes = Submissions(1)
    /\ criteria = Rubric(2, ShortText)
    /\ chunksLeft = 1
    /\ Start
    /\ (EvaluateOnly \/ UploadOnly)

(***************************************************************************)
(* evaluate(): the loop over the submissions, lines 350-534                *)
(***************************************************************************)
\* line 350 false: line 542, return intermediateData
ReturnDataset ==
    /\ pc = "loop"
    /\ submissionDataI > Len(nodes)
    /\ pc' = "returned"
    /\ UNCHANGED <<config, uploadVars, messages, childVars, loopVars, muxVars, workDirs, assessmentOutputData,
                   assessmentOutputDataList, error, status, chunksLeft>>

\* SkipSubmission with an empty record pushed for the skipped submission
SkipSubmissionPushing ==
    /\ pc = "loop"
    /\ submissionDataI <= Len(nodes)
    /\ FilteredOut(nodes[submissionDataI].user)
    /\ messages' = IF verbose
                   THEN Append(messages, Skipping(nodes[submissionDataI].user))
                   ELSE messages
    /\ assessmentOutputDataList' =
          Append(assessmentOutputDataList,
                 [NoRecord EXCEPT !.user_id = nodes[submissionDataI].user])
    /\ submissionDataI' = submissionDataI + 1
    /\ UNCHANGED <<config, uploadVars, childVars, pc, criteriaDataI, attachments, attI, muxVars,
                   workDirs, assessmentOutputData, error, status, chunksLeft>>

\* lines 354-359: the submission is announced as skipped in verbose mode;
\* continue
SkipSubmission ==
    /\ pc = "loop"
    /\ submissionDataI <= Len(nodes)
    /\ FilteredOut(nodes[submissionDataI].user)
    /\ messages' = IF verbose
                   THEN Append(messages, Skipping(nodes[submissionDataI].user))
                   ELSE messages
    /\ submissionDataI' = submissionDataI + 1
    /\ UNCHANGED <<config, uploadVars, childVars, pc, criteriaDataI, attachments, attI, muxVars,
                   workDirs, assessmentOutputData, assessmentOutputDataList,
                   error, status, chunksLeft>>

\* lines 360-370: the banner, the new record, Deno.makeTempDir called
BeginSubmission ==
    /\ pc = "loop"
    /\ submissionDataI <= Len(nodes)
    /\ ~FilteredOut(nodes[submissionDataI].user)
    /\ assessmentOutputData' = [user_id |-> nodes[submissionDataI].user,
                                assessment_type |-> "grading",
                                criterion |-> <<>>]
    /\ pc' = "mktemp"
    /\ UNCHANGED <<config, uploadVars, messages, childVars, loopVars, muxVars, workDirs,
                   assessmentOutputDataList, error, status, chunksLeft>>

\* line 370: makeTempDir resolves; lines 371-377: fetch called
MakeTempDirResolves ==
    /\ pc = "mktemp"
    /\ workDirs' = workDirs \cup {submissionDataI}
    /\ pc' = "fetchSub"
    /\ UNCHANGED <<config, uploadVars, messages, childVars, loopVars, muxVars, assessmentOutputData,
                   assessmentOutputDataList, error, status, chunksLeft>>

\* line 370: makeTempDir rejects, outside the try: evaluate() throws
MakeTempDirRejects ==
    /\ pc = "mktemp"
    /\ error' = "mktemp"
    /\ pc' = "crashed"
    /\ UNCHANGED <<config, uploadVars, messages, childVars, loopVars, muxVars, workDirs, assessmentOutputData,
                   assessmentOutputDataList, status, chunksLeft>>

\* lines 372-383: the submission's metadata arrive
FetchSubmissionResolves ==
    /\ pc = "fetchSub"
    /\ \E k \in 0..MaxAtt : \E atts \in [1..k -> DisplayNames] :
          attachments' = atts
    /\ attI' = 1
    /\ pc' = "attLoop"
    /\ UNCHANGED <<config, uploadVars, messages, childVars, submissionDataI, criteriaDataI, muxVars, workDirs,
                   assessmentOutputData, assessmentOutputDataList, error,
                   status, chunksLeft>>

\* lines 372-378: fetch or r.json() rejects
FetchSubmissionRejects ==
    /\ pc = "fetchSub"
    /\ error' = "fetch"
    /\ pc' = "finally"
    /\ UNCHANGED <<config, uploadVars, messages, childVars, loopVars, muxVars, workDirs, assessmentOutputData,
                   assessmentOutputDataList, status, chunksLeft>>

\* lines 385-391: next attachment; the name is checked, fetch(url) called
NextAttachment ==
    /\ pc = "attLoop"
    /\ attI <= Len(attachments)
    /\ IF HasSlash(attachments[attI])
       THEN error' = "BSOD" /\ pc' = "finally"
       ELSE error' = error /\ pc' = "fetchAtt"
    /\ UNCHANGED <<config, uploadVars, messages, childVars, loopVars, muxVars, workDirs, assessmentOutputData,
                   assessmentOutputDataList, status, chunksLeft>>

\* lines 392-394: the response of the download
AttachmentResponse ==
    /\ pc = "fetchAtt"
    /\ \E st \in {200, 404}, body \in BOOLEAN :
          IF st # 200 THEN error' = "status" /\ pc' = "finally"
          ELSE IF ~body THEN error' = "nobody" /\ pc' = "finally"
          ELSE error' = error /\ pc' = "download"
    /\ UNCHANGED <<config, uploadVars, messages, childVars, loopVars, muxVars, workDirs, assessmentOutputData,
                   assessmentOutputDataList, status, chunksLeft>>

\* lines 395-402: the body is written to the file, file.close()
AttachmentSaved ==
    /\ pc = "download"
    /\ attI' = attI + 1
    /\ pc' = "attLoop"
    /\ UNCHANGED <<config, uploadVars, messages, childVars, submissionDataI, criteriaDataI, attachments,
                   muxVars, workDirs, assessmentOutputData,
                   assessmentOutputDataList, error, status, chunksLeft>>

\* AttachmentsDone with the loop over the criteria starting at the second one
AttachmentsDoneFromSecond ==
    /\ pc = "attLoop"
    /\ attI > Len(attachments)
    /\ attachments' = <<>>
    /\ attI' = 1
    /\ criteriaDataI' = 2
    /\ pc' = "critLoop"
    /\ UNCHANGED <<config, uploadVars, messages, childVars, submissionDataI, muxVars,
                   workDirs, assessmentOutputData, assessmentOutputDataList,
                   error, status, chunksLeft>>

\* line 385 exhausted (the list is out of scope from here on): line 404,
\* the loop over the criteria starts
AttachmentsDone ==
    /\ pc = "attLoop"
    /\ attI > Len(attachments)
    /\ attachments' = <<>>
    /\ attI' = 1
    /\ criteriaDataI' = 1
    /\ pc' = "critLoop"
    /\ UNCHANGED <<config, uploadVars, messages, childVars, submissionDataI, muxVars,
                   workDirs, assessmentOutputData, assessmentOutputDataList,
                   error, status, chunksLeft>>

\* Cleanup with the record pushed inside the finally block
CleanupPushing ==
    /\ pc = "finally"
    /\ workDirs' = workDirs \ {submissionDataI}
    /\ assessmentOutputDataList' =
          Append(assessmentOutputDataList, assessmentOutputData)
    /\ IF error = "none"
       THEN submissionDataI' = submissionDataI + 1 /\ pc' = "loop"
       ELSE submissionDataI' = submissionDataI /\ pc' = "crashed"
    /\ UNCHANGED <<config, uploadVars, messages, childVars, criteriaDataI, attachments, attI, muxVars,
                   assessmentOutputData, error, status, chunksLeft>>

\* lines 519-524: the finally block; Deno.remove resolves, then either the
\* record is pushed (line 524) or the exception goes on out of evaluate()
Cleanup ==
    /\ pc = "finally"
    /\ workDirs' = RemoveDir(workDirs, submissionDataI)
    /\ IF error = "none"
       THEN /\ assessmentOutputDataList' =
                   Append(assessmentOutputDataList, assessmentOutputData)
            /\ submissionDataI' = submissionDataI + 1
            /\ pc' = "loop"
       ELSE /\ pc' = "crashed"
            /\ UNCHANGED <<assessmentOutputDataList, submissionDataI>>
    /\ UNCHANGED <<config, uploadVars, messages, childVars, criteriaDataI, attachments, attI, muxVars,
                   assessmentOutputData, error, status, chunksLeft>>

(***************************************************************************)
(* One criterion: the child process and the multiplexer, lines 404-518     *)
(***************************************************************************)
\* line 448: buf.length ? buf[buf.length - 1] === 10 : clean
Clean(buf, clean) == IF Len(buf) > 0 THEN buf[Len(buf)] = LF ELSE clean

\* lines 491 and 502: new Uint8Array(clean ? [13] : [10])
Terminator(clean) == IF clean THEN <<CR>> ELSE <<LF>>

\* lines 443-444 and 446: the bytes Deno.stdout.write gets for buf
Mirrored(buf) == Encode(PadNewlines(Decode(buf)))

\* the call of Deno.stdout.write a callback of the chain starts with, given
\* the value the chain resolved to: line 446 (write), line 491 (the handler
\* of a failed stdin write)
TaskWrite(task, val) ==
    IF task.src = "fail"
    THEN [src |-> "failterm", n |-> 0, bytes |-> Terminator(val.clean)]
    ELSE [src |-> task.src, n |-> task.n, bytes |-> Mirrored(task.buf)]

\* Then with the new callback put before the waiting ones
ThenFirst(task) ==
    IF chainRun = NoTask
    THEN [run |-> task, queue |-> chain,
          started |-> {TaskWrite(task, chainVal)}]
    ELSE [run |-> chainRun, queue |-> <<task>> \o chain, started |-> {}]

\* lines 445 and 490: writePromise = writePromise.then(callback).  The
\* callback starts at once when the chain is resolved; else it waits its turn
Then(task) ==
    IF chainRun = NoTask
    THEN [run |-> task, queue |-> chain,
          started |-> {TaskWrite(task, chainVal)}]
    ELSE [run |-> chainRun, queue |-> Append(chain, task), started |-> {}]

\* lines 442-452: write(buf), called by the reader src for its n-th chunk
write(src, n, buf) == Then([src |-> src, n |-> n, buf |-> buf])

\* lines 463-465 and 477-479: the reader's own write in verbose mode
Processed(src, n) ==
    IF verbose THEN {[src |-> src, n |-> n, bytes |-> ProcessedLog]} ELSE {}

\* lines 404-499: the banner, Deno.run, the padding written (line 439), the
\* three closures started (each runs to its first await), Promise.all awaited
StartCriterion ==
    /\ pc = "critLoop"
    /\ criteriaDataI <= Len(criteria)
    /\ output' = <<>>
    /\ chain' = <<>>
    /\ chainRun' = [src |-> "pad", n |-> 0, buf |-> <<>>]
    /\ inflight' = {[src |-> "pad", n |-> 0, bytes |-> writePad]}
    /\ outReader' = "read"
    /\ errReader' = "read"
    /\ stdinP' = "writing"
    /\ screen' = Render(screen, LogLine)
    /\ consoleOut' = <<>>
    /\ consoleErr' = <<>>
    /\ readOut' = <<>>
    /\ readErr' = <<>>
    /\ status' = -1
    /\ children' = children \cup {<<submissionDataI, criteriaDataI>>}
    /\ stdinBytes' = <<>>
    /\ inputFailureLogged' = FALSE
    /\ pc' = "all"
    /\ UNCHANGED <<config, uploadVars, messages, loopVars, chainVal, termLine, workDirs,
                   assessmentOutputData, assessmentOutputDataList, error,
                   chunksLeft>>

\* line 431: Deno.run throws (the command cannot be started)
SpawnFails ==
    /\ pc = "critLoop"
    /\ criteriaDataI <= Len(criteria)
    /\ error' = "spawn"
    /\ status' = -1
    /\ stdinP' = "none"
    /\ stdinBytes' = <<>>
    /\ inputFailureLogged' = FALSE
    /\ pc' = "finally"
    /\ UNCHANGED <<config, uploadVars, messages, children, loopVars, output, chain, chainRun, chainVal,
                   inflight, outReader, errReader, screen, termLine,
                   consoleOut, consoleErr, readOut, readErr, workDirs,
                   assessmentOutputData, assessmentOutputDataList, chunksLeft>>

\* line 404 false: the try block ends, the finally block starts
CriteriaDone ==
    /\ pc = "critLoop"
    /\ criteriaDataI > Len(criteria)
    /\ status' = -1
    /\ stdinP' = "none"
    /\ stdinBytes' = <<>>
    /\ inputFailureLogged' = FALSE
    /\ pc' = "finally"
    /\ UNCHANGED <<config, uploadVars, messages, children, loopVars, output, chain, chainRun, chainVal,
                   inflight, outReader, errReader, screen, termLine,
                   consoleOut, consoleErr, readOut, readErr, workDirs,
                   assessmentOutputData, assessmentOutputDataList, error,
                   chunksLeft>>

\* lines 457-465: a read of stdout returns the chunk c
ReadStdout ==
    /\ outReader = "read"
    /\ chunksLeft > 0
    /\ \E c \in OutChunks :
         LET n == Len(readOut) + 1
             w == write("out", n, c)
         IN /\ chainRun' = w.run
            /\ chain' = w.queue
            /\ inflight' = inflight \cup w.started \cup Processed("dbgout", n)
            /\ output' = output \o Decode(c)
            /\ readOut' = Append(readOut, c)
    /\ outReader' = IF verbose THEN "dbg" ELSE "read"
    /\ chunksLeft' = chunksLeft - 1
    /\ UNCHANGED <<config, uploadVars, messages, childVars, loopVars, pc, chainVal, errReader, stdinP, screen,
                   termLine, consoleOut, consoleErr, readErr, workDirs, assessmentOutputData,
                   assessmentOutputDataList, error, status>>

\* lines 472-479: a read of stderr returns the chunk c
ReadStderr ==
    /\ errReader = "read"
    /\ chunksLeft > 0
    /\ \E c \in ErrChunks :
         LET n == Len(readErr) + 1
             w == write("err", n, c)
         IN /\ chainRun' = w.run
            /\ chain' = w.queue
            /\ inflight' = inflight \cup w.started \cup Processed("dbgerr", n)
            /\ readErr' = Append(readErr, c)
    /\ errReader' = IF verbose THEN "dbg" ELSE "read"
    /\ chunksLeft' = chunksLeft - 1
    /\ UNCHANGED <<config, uploadVars, messages, childVars, loopVars, pc, chainVal, output, outReader, stdinP,
                   screen, termLine, consoleOut, consoleErr, readOut, workDirs, assessmentOutputData,
                   assessmentOutputDataList, error, status>>

\* line 458: the read of stdout returns null
StdoutEnds ==
    /\ outReader = "read"
    /\ outReader' = "eof"
    /\ UNCHANGED <<config, uploadVars, messages, childVars, loopVars, pc, output, chain, chainRun, chainVal,
                   inflight, errReader, stdinP, screen, termLine, consoleOut,
                   consoleErr, readOut, readErr,
                   workDirs, assessmentOutputData, assessmentOutputDataList,
                   error, status, chunksLeft>>

\* line 473: the read of stderr returns null
StderrEnds ==
    /\ errReader = "read"
    /\ errReader' = "eof"
    /\ UNCHANGED <<config, uploadVars, messages, childVars, loopVars, pc, output, chain, chainRun, chainVal,
                   inflight, outReader, stdinP, screen, termLine, consoleOut,
                   consoleErr, readOut, readErr,
                   workDirs, assessmentOutputData, assessmentOutputDataList,
                   error, status, chunksLeft>>

\* line 464 or 478: the reader's own write completes, the reader reads again
ProcessedWritten ==
    /\ \E w \in inflight :
         /\ w.src \in {"dbgout", "dbgerr"}
         /\ inflight' = inflight \ {w}
         /\ Lands(w, <<>>)
         /\ IF w.src = "dbgout"
            THEN outReader' = "read" /\ errReader' = errReader
            ELSE errReader' = "read" /\ outReader' = outReader
    /\ UNCHANGED <<config, uploadVars, messages, childVars, loopVars, pc, output, chain, chainRun, chainVal,
                   stdinP, termLine, readOut, readErr, workDirs, assessmentOutputData,
                   assessmentOutputDataList, error, status, chunksLeft>>

\* the value a callback of the chain returns: line 440 (the padding),
\* lines 447-450 (write), line 495 (the handler of a failed stdin write)
Resolved(task, val) ==
    IF task.src = "pad" THEN [clean |-> TRUE, bytesWritten |-> 0]
    ELSE IF task.src = "fail"
    THEN [clean |-> TRUE, bytesWritten |-> val.bytesWritten]
    ELSE [clean |-> Clean(task.buf, val.clean),
          bytesWritten |-> val.bytesWritten + Len(task.buf)]

\* lines 439-440, 446-450, 494-495: the write of the running callback
\* completes, the callback returns and the next one of the chain starts
ChainWriteCompletes ==
    /\ \E w \in inflight :
         /\ w.src \in {"pad", "out", "err", "failpad"}
         /\ Lands(w, <<>>)
         /\ LET val == Resolved(chainRun, chainVal)
            IN /\ chainVal' = val
               /\ IF chain = <<>>
                  THEN /\ chainRun' = NoTask
                       /\ chain' = chain
                       /\ inflight' = inflight \ {w}
                  ELSE /\ chainRun' = Head(chain)
                       /\ chain' = Tail(chain)
                       /\ inflight' = (inflight \ {w})
                                         \cup {TaskWrite(Head(chain), val)}
    /\ UNCHANGED <<config, uploadVars, messages, childVars, loopVars, pc, output, outReader, errReader, stdinP,
                   termLine, readOut, readErr, workDirs, assessmentOutputData,
                   assessmentOutputDataList, error, status, chunksLeft>>

\* lines 491-494: in the handler, the terminator is written, then
\* console.log and console.dir print at once, then the padding is written
FailureReported ==
    /\ \E w \in inflight :
         /\ w.src = "failterm"
         /\ Lands(w, LogLine)
         /\ inputFailureLogged' = TRUE
         /\ inflight' = (inflight \ {w})
                           \cup {[src |-> "failpad", n |-> 0, bytes |-> writePad]}
    /\ UNCHANGED <<config, uploadVars, messages, children, stdinBytes, loopVars, pc, output, chain, chainRun, chainVal,
                   outReader, errReader, stdinP, termLine, readOut, readErr,
                   workDirs, assessmentOutputData, assessmentOutputDataList,
                   error, status, chunksLeft>>

\* line 487: the number of bytes one call of Deno.Writer.write may accept
\* of buf; at least one, when there is one
Accepted(buf) == IF buf = <<>> THEN {0} ELSE 1..Len(buf)

\* lines 484-486: the bytes offered to the child's stdin
Input(c) == Encode(Unbreak(criteria[c].longDescription))

\* lines 487-488: the write to stdin resolves, having accepted n bytes;
\* stdin is closed
StdinWritten ==
    /\ stdinP = "writing"
    /\ \E n \in Accepted(Input(criteriaDataI)) :
          stdinBytes' = SubSeq(Input(criteriaDataI), 1, n)
    /\ stdinP' = "closed"
    /\ UNCHANGED <<config, uploadVars, messages, children, inputFailureLogged, loopVars, pc, output, chain, chainRun, chainVal,
                   inflight, outReader, errReader, screen, termLine,
                   consoleOut, consoleErr, readOut, readErr,
                   workDirs, assessmentOutputData, assessmentOutputDataList,
                   error, status, chunksLeft>>

\* StdinFails without the catch of line 489: the rejection leaves
\* Promise.all as an exception
StdinFailsUncaught ==
    /\ stdinP = "writing"
    /\ stdinP' = "failed"
    /\ error' = "stdin"
    /\ pc' = "finally"
    /\ UNCHANGED <<config, uploadVars, messages, childVars, loopVars, output,
                   chain, chainRun, chainVal, inflight, outReader, errReader,
                   screen, termLine, consoleOut, consoleErr, readOut, readErr,
                   workDirs, assessmentOutputData, assessmentOutputDataList,
                   status, chunksLeft>>

\* lines 489-497: the write to stdin rejects; the handler appends its
\* report to the chain
StdinFails ==
    /\ stdinP = "writing"
    /\ LET w == Then([src |-> "fail", n |-> 0, buf |-> <<>>])
       IN /\ chainRun' = w.run
          /\ chain' = w.queue
          /\ inflight' = inflight \cup w.started
    /\ stdinP' = "failed"
    /\ UNCHANGED <<config, uploadVars, messages, childVars, loopVars, pc, output, chainVal, outReader,
                   errReader, screen, termLine, consoleOut, consoleErr,
                   readOut, readErr, workDirs,
                   assessmentOutputData, assessmentOutputDataList, error,
                   status, chunksLeft>>

\* Settled with stdinPromise left out of Promise.all
SettledWithoutStdin ==
    /\ outReader = "eof"
    /\ errReader = "eof"

\* Settled with stderrPromise left out of Promise.all
SettledWithoutStderr ==
    /\ stdinP \in {"closed", "failed"}
    /\ outReader = "eof"

\* line 499: Promise.all([stdinPromise, stdoutPromise, stderrPromise])
Settled ==
    /\ stdinP \in {"closed", "failed"}
    /\ outReader = "eof"
    /\ errReader = "eof"

\* line 499: Promise.all resolves; line 501: writePromise is awaited
AllSettled ==
    /\ pc = "all"
    /\ Settled
    /\ pc' = "chainwait"
    /\ UNCHANGED <<config, uploadVars, messages, childVars, loopVars, muxVars, workDirs, assessmentOutputData,
                   assessmentOutputDataList, error, status, chunksLeft>>

\* lines 501-502: writePromise resolves, the terminator is written
WriteTerminator ==
    /\ pc = "chainwait"
    /\ chainRun = NoTask
    /\ inflight' = inflight
                     \cup {[src |-> "term", n |-> 0,
                            bytes |-> Terminator(chainVal.clean)]}
    /\ pc' = "term"
    /\ UNCHANGED <<config, uploadVars, messages, childVars, loopVars, output, chain, chainRun, chainVal,
                   outReader, errReader, stdinP, screen, termLine, consoleOut,
                   consoleErr, readOut, readErr,
                   workDirs, assessmentOutputData, assessmentOutputDataList,
                   error, status, chunksLeft>>

\* lines 502-506: the terminator is written, "pipes closed" is logged in
\* verbose mode, process.status() is awaited
TerminatorWritten ==
    /\ pc = "term"
    /\ \E w \in inflight :
         /\ w.src = "term"
         /\ inflight' = inflight \ {w}
         /\ Lands(w, IF verbose THEN LogLine ELSE <<>>)
         /\ termLine' = Render(screen, w.bytes)
    /\ pc' = "status"
    /\ UNCHANGED <<config, uploadVars, messages, childVars, loopVars, output, chain, chainRun, chainVal,
                   outReader, errReader, stdinP, readOut, readErr, workDirs,
                   assessmentOutputData, assessmentOutputDataList, error,
                   status, chunksLeft>>

\* Reap that leaves the child in the table
ReapNever(running, child) == running

\* line 506: process.status() resolves: the child is reaped
Reap(running, child) == running \ {child}

\* lines 506-518: the child has exited with code; {output, status} is logged
\* in verbose mode, the result is recorded and the iteration ends (its
\* variables, but status and what became of stdin, are out of scope from
\* here on)
StatusResolves ==
    /\ pc = "status"
    /\ \E code \in ExitCodes :
         /\ status' = code
         /\ assessmentOutputData' =
              [assessmentOutputData EXCEPT !.criterion =
                 Append(@, [points |-> Points(code, criteriaDataI),
                            comments |-> Comments(output)])]
    /\ screen' = Render(screen, IF verbose THEN LogLine ELSE <<>>)
    /\ output' = <<>>
    /\ chainVal' = [clean |-> TRUE, bytesWritten |-> 0]
    /\ termLine' = FreshLine
    /\ consoleOut' = <<>>
    /\ consoleErr' = <<>>
    /\ readOut' = <<>>
    /\ readErr' = <<>>
    /\ outReader' = "none"
    /\ errReader' = "none"
    /\ children' = Reap(children, <<submissionDataI, criteriaDataI>>)
    /\ criteriaDataI' = criteriaDataI + 1
    /\ pc' = "critLoop"
    /\ UNCHANGED <<config, uploadVars, messages, stdinBytes, inputFailureLogged, submissionDataI, attachments, attI, chain, chainRun,
                   inflight, stdinP, workDirs, assessmentOutputDataList, error,
                   chunksLeft>>

(***************************************************************************)
(* upload(), lines 545-608                                                 *)
(***************************************************************************)
\* Kept with the allow-list alone: the deny-list is not consulted
KeptAllowed(list) ==
    SelectSeq(list,
              LAMBDA r : ~users.defined
                         \/ \E i \in 1..Len(users.list) :
                               toString(users.list[i]) = r.user_id)

\* lines 546-553: the records that pass the filter, in their order
Kept(list) == SelectSeq(list, LAMBDA r : ~FilteredOut(r.user_id))

\* line 548: one message for every record that does not pass, in their order
RECURSIVE FilterLog(_)
FilterLog(list) ==
    IF list = <<>> THEN <<>>
    ELSE (IF FilteredOut(Head(list).user_id)
          THEN <<FilteredOutUser(Head(list).user_id)>> ELSE <<>>)
         \o FilterLog(Tail(list))

\* TotalPoints with the results counted instead of their points added
TotalPointsCounted(record) == Len(record.criterion)

\* line 574: Object.values(record).map(c => c.points || 0).reduce((a, b) =>
\* a + b); user_id and assessment_type are strings, which have no points
TotalPoints(record) ==
    0 + 0 + Sum([c \in 1..Len(record.criterion) |-> record.criterion[c].points])

\* lines 573-576 for every record of the list: the dry run prints the total
RECURSIVE DryRunLog(_)
DryRunLog(list) ==
    IF list = <<>> THEN <<>>
    ELSE <<WouldUpload(TotalPoints(Head(list)), Head(list).user_id)>>
         \o DryRunLog(Tail(list))

\* the response to the POST of the i-th record, with or without `errors`
Response(i, hasErrors) == [of |-> i, errors |-> hasErrors]

\* lines 545-562: upload(data) is called with list and id as the data's
\* assessmentOutputDataList and rubricAssociationId, the console holding
\* log; the filter runs, the first progress mark is written ('_', or '.'
\* when no record is left)
upload(list, id, log) ==
    /\ uploadList' = Kept(list)
    /\ uploadId' = id
    /\ messages' = log \o FilterLog(list)
    /\ uploadI' = 1
    /\ pc' = "marks"

\* lines 561-564: a '_' is written; the next '_' or the '.' is written
MarkWritten ==
    /\ pc = "marks"
    /\ uploadI <= Len(uploadList)
    /\ uploadI' = uploadI + 1
    /\ UNCHANGED <<config, rubricAssociationId, uploadList, uploadId, posted, results,
                   errors, files, exitCode, messages, childVars, pc,
                   submissionDataI, criteriaDataI, attachments, attI, muxVars,
                   workDirs, assessmentOutputData, assessmentOutputDataList,
                   error, status, chunksLeft>>

\* lines 564-585: the '.' is written.  In a dry run the loop over the records
\* has no await: every total is printed, then the summary (lines 596-607).
\* Else the first record is POSTed, or '|' is written when there is none
DotWritten ==
    /\ pc = "marks"
    /\ uploadI > Len(uploadList)
    /\ IF dryRun
       THEN /\ results' = [i \in 1..Len(uploadList) |-> Response(i, FALSE)]
            /\ messages' = messages \o DryRunLog(uploadList)
                              \o <<UploadFinished(Len(errors), Len(uploadList))>>
            /\ pc' = "uploaded"
            /\ UNCHANGED <<posted, uploadI>>
       ELSE IF uploadList = <<>>
       THEN /\ pc' = "bar"
            /\ UNCHANGED <<posted, results, messages, uploadI>>
       ELSE /\ uploadI' = 1
            /\ posted' = Append(posted, uploadList[1])
            /\ pc' = "post"
            /\ UNCHANGED <<results, messages>>
    /\ UNCHANGED <<config, rubricAssociationId, uploadList, uploadId, errors, files,
                   exitCode, childVars, submissionDataI, criteriaDataI,
                   attachments, attI, muxVars, workDirs, assessmentOutputData,
                   assessmentOutputDataList, error, status, chunksLeft>>

\* lines 577-589 and 593: the response to the POST arrives; it goes to
\* results, and to errors when it carries `errors`; 'E' or '#' is written
PostResolves ==
    /\ pc = "post"
    /\ \E hasErrors \in BOOLEAN :
         /\ results' = Append(results, Response(uploadI, hasErrors))
         /\ errors' = IF hasErrors
                      THEN Append(errors, Response(uploadI, hasErrors))
                      ELSE errors
    /\ pc' = "postMark"
    /\ UNCHANGED <<config, rubricAssociationId, uploadList, uploadId, uploadI, posted,
                   files, exitCode, messages, childVars, submissionDataI,
                   criteriaDataI, attachments, attI, muxVars, workDirs,
                   assessmentOutputData, assessmentOutputDataList, error,
                   status, chunksLeft>>

\* lines 577-585: fetch or r.json() rejects; nothing catches it
PostRejects ==
    /\ pc = "post"
    /\ error' = "post"
    /\ pc' = "crashed"
    /\ UNCHANGED <<config, uploadVars, messages, childVars, loopVars, muxVars,
                   workDirs, assessmentOutputData, assessmentOutputDataList,
                   status, chunksLeft>>

\* lines 589 and 593: the 'E' or '#' is written; the next record is POSTed,
\* or '|' is written after the last one (line 596)
PostMarkWritten ==
    /\ pc = "postMark"
    /\ IF uploadI < Len(uploadList)
       THEN /\ uploadI' = uploadI + 1
            /\ posted' = Append(posted, uploadList[uploadI + 1])
            /\ pc' = "post"
       ELSE /\ pc' = "bar"
            /\ UNCHANGED <<uploadI, posted>>
    /\ UNCHANGED <<config, rubricAssociationId, uploadList, uploadId, results, errors,
                   files, exitCode, messages, childVars, submissionDataI,
                   criteriaDataI, attachments, attI, muxVars, workDirs,
                   assessmentOutputData, assessmentOutputDataList, error,
                   status, chunksLeft>>

\* lines 596-607: the '|' is written, the summary is printed, upload returns
BarWritten ==
    /\ pc = "bar"
    /\ messages' = Append(messages,
                          UploadFinished(Len(errors), Len(uploadList)))
    /\ pc' = "uploaded"
    /\ UNCHANGED <<config, uploadVars, childVars, loopVars, muxVars, workDirs,
                   assessmentOutputData, assessmentOutputDataList, error,
                   status, chunksLeft>>

(***************************************************************************)
(* The program, lines 189-231, and graphql(), lines 233-335                *)
(***************************************************************************)
\* lines 312-318: the ids of all assessments of all submissions
rubricAssociationIds ==
    Flatten([i \in 1..Len(assessed) |->
               [j \in 1..Len(assessed[i]) |-> parseInt(assessed[i][j])]])

\* Discovery that takes the first id whatever the other ones are
DiscoveryOfFirst(ids) ==
    IF Len(ids) = 0
    THEN [id |-> Undefined, log |-> <<NoAssessmentYet, UploadImpossible>>]
    ELSE [id |-> Defined(ids[1]), log |-> <<>>]

\* lines 319-332: the id all assessments agree on, if any, and the warnings
Discovery(ids) ==
    IF Len(ids) = 0
    THEN [id |-> Undefined, log |-> <<NoAssessmentYet, UploadImpossible>>]
    ELSE IF ~(\A k \in 2..Len(ids) : ids[k] = ids[1])
    THEN [id |-> Undefined, log |-> <<MultipleIds, UploadImpossible>>]
    ELSE [id |-> Defined(ids[1]), log |-> <<>>]

\* Deno.exit(code), and the end of the module's code (code 0)
Exit(code) ==
    /\ exitCode' = code
    /\ pc' = "exited"

\* line 189: with --input the file is read (line 190), else graphql() is
\* called (line 215) and sends its query (line 234)
MainStart ==
    /\ pc = "main"
    /\ pc' = IF input THEN "readFile" ELSE "graphql"
    /\ UNCHANGED <<config, uploadVars, messages, childVars, loopVars, muxVars,
                   workDirs, assessmentOutputData, assessmentOutputDataList,
                   error, status, chunksLeft>>

\* lines 190-202: the file is read and parsed; graphql() is called when the
\* document names no rubric association, else upload()
InputRead ==
    /\ pc = "readFile"
    /\ rubricAssociationId' = fileData.rubricAssociationId
    /\ IF ~Truthy(fileData.rubricAssociationId)
       THEN /\ pc' = "graphql"
            /\ UNCHANGED <<uploadList, uploadId, uploadI, messages>>
       ELSE upload(fileData.assessmentOutputDataList,
                   fileData.rubricAssociationId.id, messages)
    /\ UNCHANGED <<config, posted, results, errors, files, exitCode, childVars,
                   submissionDataI, criteriaDataI, attachments, attI, muxVars,
                   workDirs, assessmentOutputData, assessmentOutputDataList,
                   error, status, chunksLeft>>

\* lines 296-334: the answer of the query arrives; in verbose mode it is
\* saved (line 302); the discovery.  Then, with --input, upload() or
\* Deno.exit(1) (lines 195-212); else evaluate() is called (line 216)
GraphqlResolves ==
    /\ pc = "graphql"
    /\ files' = IF verbose /\ ~dryRun
                THEN files \cup {"graphql-response.json"} ELSE files
    /\ LET found == Discovery(rubricAssociationIds)
       IN /\ rubricAssociationId' = found.id
          /\ IF ~input
             THEN /\ messages' = messages \o found.log
                  /\ pc' = "loop"
                  /\ UNCHANGED <<uploadList, uploadId, uploadI, exitCode>>
             ELSE IF Truthy(found.id)
             THEN /\ upload(fileData.assessmentOutputDataList, found.id.id,
                            messages \o found.log)
                  /\ UNCHANGED exitCode
             ELSE /\ messages' = messages \o found.log
                  /\ Exit(1)
                  /\ UNCHANGED <<uploadList, uploadId, uploadI>>
    /\ UNCHANGED <<config, posted, results, errors, childVars, submissionDataI,
                   criteriaDataI, attachments, attI, muxVars, workDirs,
                   assessmentOutputData, assessmentOutputDataList, error,
                   status, chunksLeft>>

\* lines 234-296: fetch or r.json() rejects; nothing catches it
GraphqlRejects ==
    /\ pc = "graphql"
    /\ error' = "graphql"
    /\ pc' = "crashed"
    /\ UNCHANGED <<config, uploadVars, messages, childVars, loopVars, muxVars,
                   workDirs, assessmentOutputData, assessmentOutputDataList,
                   status, chunksLeft>>

\* UploadOrEnd with upload() called whether an output file is asked for or
\* not
UploadOrEndDespiteOutput ==
    IF Truthy(rubricAssociationId)
    THEN upload(assessmentOutputDataList, rubricAssociationId.id, messages)
         /\ UNCHANGED exitCode
    ELSE Exit(0) /\ UNCHANGED <<uploadList, uploadId, uploadI, messages>>

\* lines 227-231: upload() is called when no output file is asked for and
\* there is a rubric association; else the program ends
UploadOrEnd ==
    IF ~outputArg /\ Truthy(rubricAssociationId)
    THEN upload(assessmentOutputDataList, rubricAssociationId.id, messages)
         /\ UNCHANGED exitCode
    ELSE Exit(0) /\ UNCHANGED <<uploadList, uploadId, uploadI, messages>>

\* lines 216-225: evaluate() has returned; the plan is written when verbose
\* or --output is given (only announced in a dry run), then line 227
AfterEvaluate ==
    /\ pc = "returned"
    /\ IF (verbose \/ outputArg) /\ ~dryRun
       THEN /\ pc' = "savePlan"
            /\ UNCHANGED <<uploadList, uploadId, uploadI, messages, exitCode>>
       ELSE UploadOrEnd
    /\ UNCHANGED <<config, rubricAssociationId, posted, results, errors, files,
                   childVars, loopVars, muxVars, workDirs, assessmentOutputData,
                   assessmentOutputDataList, error, status, chunksLeft>>

\* line 223: Deno.writeTextFile resolves, then line 227
PlanSaved ==
    /\ pc = "savePlan"
    /\ files' = files \cup {"assessment-plan.json"}
    /\ UploadOrEnd
    /\ UNCHANGED <<config, rubricAssociationId, posted, results, errors,
                   childVars, loopVars, muxVars, workDirs, assessmentOutputData,
                   assessmentOutputDataList, error, status, chunksLeft>>

\* lines 199-210 and 227-231: upload() has returned; with --input its result
\* is written when verbose or --output is given (only announced in a dry
\* run); the program ends
AfterUpload ==
    /\ pc = "uploaded"
    /\ IF input /\ (verbose \/ outputArg) /\ ~dryRun
       THEN pc' = "saveResult" /\ UNCHANGED exitCode
       ELSE Exit(0)
    /\ UNCHANGED <<config, rubricAssociationId, uploadList, uploadId, uploadI, posted,
                   results, errors, files, messages, childVars, loopVars,
                   muxVars, workDirs, assessmentOutputData,
                   assessmentOutputDataList, error, status, chunksLeft>>

\* line 208: Deno.writeTextFile resolves; the program ends
ResultSaved ==
    /\ pc = "saveResult"
    /\ files' = files \cup {"assessment-result.json"}
    /\ Exit(0)
    /\ UNCHANGED <<config, rubricAssociationId, uploadList, uploadId, uploadI, posted,
                   results, errors, messages, childVars, loopVars, muxVars,
                   workDirs, assessmentOutputData, assessmentOutputDataList,
                   error, status, chunksLeft>>

\* an exception left the module's top-level await (lines 194, 199, 215, 216,
\* 227): Deno reports it and exits with code 1
UncaughtException ==
    /\ pc = "crashed"
    /\ Exit(1)
    /\ UNCHANGED <<config, rubricAssociationId, uploadList, uploadId, uploadI, posted,
                   results, errors, files, messages, childVars, loopVars,
                   muxVars, workDirs, assessmentOutputData,
                   assessmentOutputDataList, error, status, chunksLeft>>

Next ==
    \/ MainStart
    \/ InputRead
    \/ GraphqlResolves
    \/ GraphqlRejects
    \/ AfterEvaluate
    \/ PlanSaved
    \/ MarkWritten
    \/ DotWritten
    \/ PostResolves
    \/ PostRejects
    \/ PostMarkWritten
    \/ BarWritten
    \/ AfterUpload
    \/ ResultSaved
    \/ UncaughtException
    \/ ReturnDataset
    \/ SkipSubmission
    \/ BeginSubmission
    \/ MakeTempDirResolves
    \/ MakeTempDirRejects
    \/ FetchSubmissionResolves
    \/ FetchSubmissionRejects
    \/ NextAttachment
    \/ AttachmentResponse
    \/ AttachmentSaved
    \/ AttachmentsDone
    \/ StartCriterion
    \/ SpawnFails
    \/ CriteriaDone
    \/ ReadStdout
    \/ ReadStderr
    \/ StdoutEnds
    \/ StderrEnds
    \/ ProcessedWritten
    \/ ChainWriteCompletes
    \/ FailureReported
    \/ StdinWritten
    \/ StdinFails
    \/ AllSettled
    \/ WriteTerminator
    \/ TerminatorWritten
    \/ StatusResolves
    \/ Cleanup

Spec == Init /\ [][Next]_vars

SpecMux == InitMux /\ [][Next]_vars

SpecMain == InitMain /\ [][Next]_vars

\* what the event loop gives in the run of a criterion: a write to the
\* console completes, and a resolved promise resumes the code that awaits
\* it (lines 499 and 501).  Nothing is assumed of the child
Fairness ==
    /\ WF_vars(ProcessedWritten \/ ChainWriteCompletes \/ FailureReported
                  \/ TerminatorWritten)
    /\ WF_vars(AllSettled \/ WriteTerminator)

SpecLive == InitLive /\ [][Next]_vars /\ Fairness

(***************************************************************************)
(* Properties                                                              *)
(***************************************************************************)
Results(record) == record.criterion
Records == {assessmentOutputData}
              \cup {assessmentOutputDataList[k] :
                      k \in 1..Len(assessmentOutputDataList)}

\* C1: the points recorded for a criterion are the criterion's maximum when
\* the child exited with status zero and 0 when it exited with any other
\* status, and no record ever holds another value; the stdin write having
\* failed or not makes no difference.
C1_PointsFromExitStatus ==
    /\ status # -1 =>
          LET c == criteriaDataI - 1
          IN Results(assessmentOutputData)[c].points =
                IF status = 0 THEN criteria[c].points ELSE 0
    /\ \A r \in Records : \A c \in 1..Len(Results(r)) :
          Results(r)[c].points \in {0, criteria[c].points}

\* the first criterion passed (3 points), the second one failed with a
\* non-zero status after its stdin write had failed (0 points)
C1_Witness ==
    /\ pc = "critLoop"
    /\ criteriaDataI = 3
    /\ status > 0
    /\ stdinP = "failed"
    /\ Results(assessmentOutputData)[1].points = 3
    /\ Results(assessmentOutputData)[2].points = 0

\* C2: once a criterion's output is drained, the captured text is exactly
\* the text of the bytes read from the child's stdout, in the order read:
\* the concatenation of the stdout chunks, nothing of stderr, nothing lost
\* or doubled.
C2_CapturedTextIsStdout ==
    pc = "status" => output = Decode(Flatten(readOut))

\* C3: the exit status is awaited only after both readers have met the end
\* of their stream and every callback appended to the writePromise chain,
\* the report of a failed stdin write among them, has written its bytes.
C3_StatusAfterDrain ==
    pc = "status" =>
       /\ outReader = "eof"
       /\ errReader = "eof"
       /\ chain = <<>>
       /\ chainRun = NoTask
       /\ inflight = {}
       /\ Len(consoleOut) = Len(readOut)
       /\ Len(consoleErr) = Len(readErr)

\* the status is awaited after a failed stdin write and after chunks of
\* both streams
C3_Witness ==
    /\ pc = "status"
    /\ stdinP = "failed"
    /\ Len(readOut) >= 1
    /\ Len(readErr) >= 1

\* C4: no working directory exists between two submissions, after the
\* return or after the exception has left evaluate(), whatever ended the
\* submission's evaluation; and never two directories exist together.
C4_WorkDirRemoved ==
    /\ Cardinality(workDirs) <= 1
    /\ pc \in {"loop", "mktemp", "returned", "crashed"} => workDirs = {}

\* a download answered 404 for the second submission: its directory, made
\* after the first one's was removed, is removed too
C4_Witness ==
    /\ pc = "crashed"
    /\ error = "status"
    /\ submissionDataI = 2
    /\ Len(assessmentOutputDataList) = 1
    /\ workDirs = {}

\* the faults of one submission
SubmissionFaults == {"BSOD", "status", "nobody"}

\* C5: an unsafe display name, a download status other than 200 or a
\* response without a body ends the evaluation of that submission only: the
\* run never ends by such a fault.
C5_FaultAbortsOnlySubmission ==
    ~(pc = "crashed" /\ error \in SubmissionFaults)

\* C6: every record of the dataset holds a result for every criterion of
\* the rubric, and the dataset holds no record of a submission whose
\* evaluation raised a fault.
C6_OnlyCompleteRecords ==
    /\ \A k \in 1..Len(assessmentOutputDataList) :
          Len(Results(assessmentOutputDataList[k])) = Len(criteria)
    /\ error # "none" =>
          \A k \in 1..Len(assessmentOutputDataList) :
             assessmentOutputDataList[k].user_id # nodes[submissionDataI].user

\* the second submission's child could not be started for the second
\* criterion: its record holds one result and is not in the dataset
C6_Witness ==
    /\ pc = "crashed"
    /\ error = "spawn"
    /\ Len(Results(assessmentOutputData)) = 1
    /\ Len(assessmentOutputDataList) = 1

\* the filter as the claim words it
InAllowList(userId) == \E i \in 1..Len(users.list) : toString(users.list[i]) = userId
InDenyList(userId) == \E i \in 1..Len(exceptUsers) : toString(exceptUsers[i]) = userId
MustSkip(userId) ==
    (users.defined /\ ~InAllowList(userId)) \/ InDenyList(userId)
AtSubmission == pc = "loop" /\ submissionDataI <= Len(nodes)

\* C7: at the head of the loop a submission is skipped exactly when an
\* allow-list is given and its user is not in it, or its user is in the
\* deny-list; skipping makes no directory, starts no fetch and no child and
\* adds no record; a submission that is not skipped goes on to its
\* evaluation.
C7_SkipExactlyFiltered ==
    [][ AtSubmission =>
          IF MustSkip(nodes[submissionDataI].user)
          THEN /\ pc' = "loop"
               /\ submissionDataI' = submissionDataI + 1
               /\ UNCHANGED <<workDirs, assessmentOutputDataList, inflight,
                              outReader, errReader, stdinP>>
          ELSE /\ pc' = "mktemp"
               /\ assessmentOutputData'.user_id = nodes[submissionDataI].user
      ]_vars

\* the first user is in both lists and was skipped; the second one is not in
\* the allow-list, and the run returned an empty dataset
C7_Witness ==
    /\ pc = "returned"
    /\ users.defined
    /\ InAllowList(nodes[1].user) /\ InDenyList(nodes[1].user)
    /\ ~InAllowList(nodes[2].user)
    /\ assessmentOutputDataList = <<>>

\* C8: at most one write to the console is in progress at any time, in
\* verbose mode too.
C8_OneConsoleWriteAtATime ==
    Cardinality(inflight) <= 1

\* C9: the console gets the chunks of stdout in the order they were read,
\* each one once and in one piece, and the chunks of stderr likewise; when
\* the output is drained it got every chunk.
C9_StreamOrderKept ==
    /\ Len(consoleOut) <= Len(readOut)
    /\ \A i \in 1..Len(consoleOut) : consoleOut[i] = Mirrored(readOut[i])
    /\ Len(consoleErr) <= Len(readErr)
    /\ \A i \in 1..Len(consoleErr) : consoleErr[i] = Mirrored(readErr[i])
    /\ pc = "status" =>
          Len(consoleOut) = Len(readOut) /\ Len(consoleErr) = Len(readErr)

\* two different chunks of stdout and one of stderr were read and written
C9_Witness ==
    /\ pc = "status"
    /\ Len(readOut) = 2
    /\ readOut[1] # readOut[2]
    /\ Len(readErr) = 1
    /\ Len(consoleOut) = 2

\* C10: after the terminator the cursor is at the start of a line that
\* holds no visible output, in verbose mode too.
C10_TerminatorLeavesFreshLine ==
    pc = "status" => termLine.col0 /\ ~termLine.visible

\* the child of the current criterion has been started and not yet reaped
InCriterion == pc \in {"all", "chainwait", "term", "status"}

\* C11: a failed write to the child's stdin raises no exception and ends
\* neither the criterion, the submission nor the run; when the exit status
\* is awaited the failure has been reported on the console and both streams
\* have met their end; the points follow the exit status alone.
C11_StdinFailureTolerated ==
    stdinP = "failed" =>
       /\ error = "none"
       /\ pc \in {"all", "chainwait", "term", "status", "critLoop"}
       /\ pc = "status" =>
             /\ inputFailureLogged
             /\ outReader = "eof" /\ errReader = "eof"
       /\ pc = "critLoop" =>
             /\ Len(Results(assessmentOutputData)) = criteriaDataI - 1
             /\ Results(assessmentOutputData)[criteriaDataI - 1].points =
                   IF status = 0 THEN criteria[criteriaDataI - 1].points ELSE 0

\* the write to stdin failed, the child went on to print to stdout and
\* exited with status zero: the criterion has its result, with full points
C11_Witness ==
    /\ pc = "critLoop"
    /\ stdinP = "failed"
    /\ inputFailureLogged
    /\ status = 0
    /\ Results(assessmentOutputData)[1].points = 3
    /\ Results(assessmentOutputData)[1].comments # <<>>

\* C12: when the write to stdin did not fail, the child's stdin has got the
\* whole normalized text of the criterion by the time it is closed, also
\* when a call of write accepts fewer bytes than it was offered.
C12_WholeTextBeforeClose ==
    InCriterion /\ stdinP = "closed" => stdinBytes = Input(criteriaDataI)

\* C13: at most one child is started and not yet reaped; it is the child
\* of the current criterion, run in the current submission's directory; at
\* the head of the loop over the criteria, and wherever a directory is made,
\* no child is left and the status of the previous criterion is there.
C13_OneChildAtATime ==
    /\ Cardinality(children) <= 1
    /\ children # {} =>
          /\ InCriterion
          /\ children = {<<submissionDataI, criteriaDataI>>}
          /\ workDirs = {submissionDataI}
    /\ InCriterion => children # {}
    /\ pc = "critLoop" /\ criteriaDataI > 1 => status # -1

\* the second criterion's child of the second submission runs alone
C13_Witness ==
    /\ pc = "all"
    /\ children = {<<2, 2>>}
    /\ Len(assessmentOutputDataList) = 1
    /\ Len(Results(assessmentOutputData)) = 1

\* upload() has been called and has not returned to the program's end
InUpload == pc \in {"marks", "post", "postMark", "bar", "uploaded", "saveResult"}
Logged(m) == \E k \in 1..Len(messages) : messages[k] = m
Last(seq) == seq[Len(seq)]
Failed(rs) == {k \in 1..Len(rs) : rs[k].errors}

\* C14: no failing POST is fatal, be it a response with `errors` or a
\* failure of the request itself; when upload() returns, every record that
\* passed the filter has been POSTed once, in order, and the summary gives
\* the number of failed records and the number of records that passed.
C14_EveryRecordPosted ==
    /\ error # "post"
    /\ pc = "uploaded" /\ ~dryRun =>
          /\ posted = uploadList
          /\ Len(results) = Len(uploadList)
          /\ Last(messages) =
                UploadFinished(Cardinality(Failed(results)), Len(uploadList))

\* the points of a record's criterion results, added up
RECURSIVE PointsOfResults(_)
PointsOfResults(rs) ==
    IF rs = <<>> THEN 0 ELSE rs[1].points + PointsOfResults(Tail(rs))

\* C15: a dry run never POSTs; when upload() returns it has printed, for
\* every record that passed the filter and in their order, the sum of the
\* points of the record's criterion results, and then a summary with zero
\* failures.
C15_DryRunNeverPosts ==
    dryRun =>
       /\ posted = <<>>
       /\ pc \notin {"post", "postMark", "bar"}
       /\ pc = "uploaded" =>
             LET n == Len(uploadList)
                 m == Len(messages)
             IN /\ m >= n + 1
                /\ \A k \in 1..n :
                      messages[m - n - 1 + k] =
                         WouldUpload(PointsOfResults(Results(uploadList[k])),
                                     uploadList[k].user_id)
                /\ messages[m] = UploadFinished(0, n)

\* a dry run of the upload of the record of user "7", with 3 and 0 points,
\* has printed the total 3
C15_Witness ==
    /\ pc = "uploaded"
    /\ dryRun
    /\ \E k \in 1..Len(uploadList) :
          /\ uploadList[k].user_id = <<"7">>
          /\ Results(uploadList[k])[1].points = 3
          /\ Results(uploadList[k])[2].points = 0
    /\ Logged(WouldUpload(3, <<"7">>))

\* the rubric association ids of all assessments of all submissions
CollectedIds ==
    UNION { {parseInt(assessed[i][j]) : j \in 1..Len(assessed[i])} :
              i \in 1..Len(assessed) }
\* graphql() has returned
Discovered ==
    /\ pc \notin {"main", "readFile", "graphql"}
    /\ error # "graphql"
    /\ input => ~Truthy(fileData.rubricAssociationId)


\* C16: the discovery returns the id x exactly when the collected ids are
\* not empty and all equal to x; it returns undefined and prints the
\* no-assessment-yet warning when there is none, and returns undefined and
\* prints the ambiguity warning when there are two different ones.
C16_DiscoveryUnanimous ==
    Discovered =>
       /\ rubricAssociationId.defined <=> Cardinality(CollectedIds) = 1
       /\ rubricAssociationId.defined =>
             CollectedIds = {rubricAssociationId.id}
       /\ Logged(NoAssessmentYet) <=> CollectedIds = {}
       /\ Logged(MultipleIds) <=> Cardinality(CollectedIds) >= 2
       /\ Logged(UploadImpossible) <=> ~rubricAssociationId.defined

\* both submissions are assessed under the association 7: the id is 7 and
\* no warning is printed
C16_Witness ==
    /\ Discovered
    /\ \A i \in 1..Len(assessed) : assessed[i] = << <<"7">> >>
    /\ rubricAssociationId = Defined(7)
    /\ ~Logged(UploadImpossible)

\* the users of the submissions that pass the filter, in their order
Passing == SelectSeq([i \in 1..Len(nodes) |-> nodes[i].user],
                     LAMBDA u : ~MustSkip(u))
UsersOf(list) == [k \in 1..Len(list) |-> list[k].user_id]

\* C17: in an evaluation whose discovery returned undefined, upload() is
\* never called and nothing is POSTed, the program exits with a non-zero
\* code only by an exception of another origin, and when it ends without
\* one the dataset holds the record of every submission that passed the
\* filter and the plan has been written if --output asked for it.
C17_AmbiguityIsNotFatal ==
    ~input /\ Discovered /\ ~rubricAssociationId.defined =>
       /\ posted = <<>>
       /\ ~InUpload
       /\ pc = "exited" /\ error = "none" =>
             /\ exitCode = 0
             /\ UsersOf(assessmentOutputDataList) = Passing
             /\ outputArg /\ ~dryRun => "assessment-plan.json" \in files

\* the two submissions are assessed under different associations: both
\* were evaluated, the plan was written and the program ended with code 0
\* without a POST
C17_Witness ==
    /\ pc = "exited"
    /\ exitCode = 0
    /\ ~input
    /\ CollectedIds = {7, 8}
    /\ Logged(MultipleIds)
    /\ Len(assessmentOutputDataList) = 2
    /\ "assessment-plan.json" \in files
    /\ posted = <<>>

\* C18: the program never ends with a non-zero exit code by a discovery
\* that returned undefined (Deno.exit without an exception), by a fault of
\* one submission, by a failed stdin write or by a failed POST.
C18_OnlyConfigurationFaultsExit ==
    pc = "exited" /\ exitCode # 0 =>
       /\ error # "none"
       /\ error \notin SubmissionFaults \cup {"stdin", "post"}

\* C19: every submission the filter skipped in evaluate() has been
\* announced on the console, and so has every record the filter dropped in
\* upload(), in verbose mode or not.
C19_NoSilentDrop ==
    /\ ~input =>
          \A i \in 1..Len(nodes) :
             i < submissionDataI /\ MustSkip(nodes[i].user) =>
                Logged(Skipping(nodes[i].user))
    /\ InUpload =>
          LET list == IF input THEN fileData.assessmentOutputDataList
                      ELSE assessmentOutputDataList
          IN \A k \in 1..Len(list) :
                MustSkip(list[k].user_id) =>
                   Logged(FilteredOutUser(list[k].user_id))


\* the child closes its stdout and its stderr (a pending read resolves, with
\* a chunk or with the end of the stream), takes or refuses its input, and
\* exits
ChildResponds ==
    /\ WF_vars(ReadStdout \/ StdoutEnds)
    /\ WF_vars(ReadStderr \/ StderrEnds)
    /\ WF_vars(StdinWritten \/ StdinFails)
    /\ WF_vars(StatusResolves)

\* C20: the three closures of a criterion are started in the step that
\* starts the child, before Promise.all is awaited; the code after
\* Promise.all runs only when the stdin write is over and both readers have
\* met the end of their stream; when the child closes its streams and exits,
\* every started criterion gets its result; and when the child never closes
\* stdout, never closes stderr or never exits, the run stays in that
\* criterion for ever (no result, no later criterion, no later submission).
C20_CriterionCompletes ==
    /\ [][pc = "critLoop" /\ pc' = "all" =>
            outReader' = "read" /\ errReader' = "read" /\ stdinP' = "writing"]_vars
    /\ [](pc \in {"chainwait", "term", "status"} =>
            /\ stdinP \in {"closed", "failed"}
            /\ outReader = "eof"
            /\ errReader = "eof")
    /\ ChildResponds =>
          \A c \in 1..2 :
             (InCriterion /\ criteriaDataI = c)
                ~> (Len(Results(assessmentOutputData)) >= c)
    /\ [](InCriterion /\ [](outReader # "eof") => []InCriterion)
    /\ [](InCriterion /\ [](errReader # "eof") => []InCriterion)
    /\ [](InCriterion /\ [](status = -1) => []InCriterion)

\* both criteria of the submission have their result, the child of one of
\* them having printed to stdout
C20_Witness ==
    /\ pc = "critLoop"
    /\ criteriaDataI = 3
    /\ Len(Results(assessmentOutputData)) = 2
    /\ \E c \in 1..2 : Results(assessmentOutputData)[c].comments # <<>>


\* the results of a record were made for the criteria in the rubric's order:
\* the c-th one carries the points of the c-th criterion, or none
InRubricOrder(record) ==
    /\ Len(Results(record)) = Len(criteria)
    /\ \A c \in 1..Len(criteria) :
          Results(record)[c].points \in {0, criteria[c].points}

\* C21: within a submission the child of a criterion is started only when
\* exactly the criteria before it have their result; a result is recorded
\* only when the child of the current criterion has exited, after the
\* results of the criteria before it, with the criterion's points when the
\* exit status is 0 and with 0 else, and the loop moves on to the next
\* criterion; and a record enters the dataset with the submission's user
\* id, the assessment type "grading" and one result for every criterion of
\* the rubric, in the rubric's order.
C21_CriteriaInOrder ==
    [][/\ pc = "critLoop" /\ pc' = "all" =>
             Len(Results(assessmentOutputData)) = criteriaDataI - 1
       /\ Results(assessmentOutputData') # Results(assessmentOutputData) =>
             \/ pc = "loop" /\ Results(assessmentOutputData') = <<>>
             \/ /\ pc = "status"
                /\ criteriaDataI \in 1..Len(criteria)
                /\ Len(Results(assessmentOutputData)) = criteriaDataI - 1
                /\ \E result \in {Last(Results(assessmentOutputData'))} :
                      /\ Results(assessmentOutputData') =
                            Append(Results(assessmentOutputData), result)
                      /\ result.points = IF status' = 0
                                         THEN criteria[criteriaDataI].points
                                         ELSE 0
                /\ criteriaDataI' = criteriaDataI + 1
       /\ assessmentOutputDataList' # assessmentOutputDataList =>
             /\ assessmentOutputDataList' =
                   Append(assessmentOutputDataList, assessmentOutputData)
             /\ assessmentOutputData.user_id = nodes[submissionDataI].user
             /\ assessmentOutputData.assessment_type = "grading"
             /\ InRubricOrder(assessmentOutputData)
      ]_vars

\* the record of the first submission is in the dataset: its criteria are
\* worth 3 and 2 points, their children exited with status 0 and with
\* another status, and the record holds 3 points and 0 points
C21_Witness ==
    /\ Len(assessmentOutputDataList) >= 1
    /\ assessmentOutputDataList[1].user_id = nodes[1].user
    /\ assessmentOutputDataList[1].assessment_type = "grading"
    /\ criteria[1].points = 3 /\ criteria[2].points = 2
    /\ Results(assessmentOutputDataList[1])[1].points = 3
    /\ Results(assessmentOutputDataList[1])[2].points = 0
    /\ submissionDataI = 2
    /\ status # 0


\* the dataset upload() is called with: the document of the --input file,
\* or what evaluate() returned
UploadData ==
    IF input THEN fileData.assessmentOutputDataList
    ELSE assessmentOutputDataList

\* the records of a list whose user id passes the filter, in their order
Surviving(list) == SelectSeq(list, LAMBDA r : ~MustSkip(r.user_id))

\* C22: upload() keeps exactly the records of its dataset whose user id is
\* in the allow-list (when one is given) and not in the deny-list, in the
\* dataset's order; what evaluate() let through, upload() lets through; the
\* records are POSTed one by one in that order, none in a dry run, and when
\* upload() returns without --dry-run the records POSTed are exactly the
\* records that pass the filter.
C22_UploadFiltersAsEvaluate ==
    /\ InUpload =>
          /\ uploadList = Surviving(UploadData)
          /\ posted = SubSeq(uploadList, 1, Len(posted))
          /\ ~input => uploadList = assessmentOutputDataList
    /\ pc = "uploaded" =>
          posted = IF dryRun THEN <<>> ELSE Surviving(UploadData)

\* upload() has returned: of the two records of the file the one of the
\* denied user 7 was not POSTed, the one of user 14 was
C22_Witness ==
    /\ pc = "uploaded"
    /\ input /\ ~dryRun
    /\ exceptUsers = <<7>>
    /\ UsersOf(fileData.assessmentOutputDataList) = << <<"7">>, <<"1", "4">> >>
    /\ UsersOf(posted) = << <<"1", "4">> >>


\* upload() has been called (the ids of rubric associations are positive)
UploadCalled == uploadId # 0

\* evaluate() has returned: the loop over the submissions is over, no child
\* runs, no working directory is left, no exception left evaluate()
EvaluationFinished ==
    /\ submissionDataI > Len(nodes)
    /\ pc \notin {"main", "graphql", "loop"}
    /\ ~InCriterion
    /\ children = {}
    /\ workDirs = {}
    /\ error \in {"none", "post"}

\* C23: without --input, upload() is called only when no --output is given
\* and the discovery found one rubric association id, only after evaluate()
\* has returned, and with that id and the dataset evaluate() returned (the
\* record of every submission that passed the filter); and a run that ends
\* without an exception has called upload() exactly when no --output is
\* given and the discovery found an id.
C23_UploadAfterEvaluation ==
    ~input =>
       /\ InUpload => UploadCalled
       /\ UploadCalled =>
             /\ ~outputArg
             /\ CollectedIds = {uploadId}
             /\ rubricAssociationId = Defined(uploadId)
             /\ EvaluationFinished
             /\ uploadList = assessmentOutputDataList
             /\ UsersOf(uploadList) = Passing
       /\ pc = "exited" /\ error = "none" =>
             (UploadCalled <=> ~outputArg /\ Cardinality(CollectedIds) = 1)

\* both submissions are assessed under the association 7 and pass the
\* filter, no --output: after their evaluation upload() was called with the
\* id 7 and POSTed the two records
C23_Witness ==
    /\ ~input /\ ~outputArg /\ ~dryRun
    /\ pc = "uploaded"
    /\ CollectedIds = {7}
    /\ uploadId = 7
    /\ Len(posted) = 2
    /\ posted = assessmentOutputDataList


\* C24: the dataset never holds the record of a filtered-out submission nor
\* two records of one submission: its records are, in the order of the
\* submission list, those of the submissions gone through so far that
\* passed the filter, each with its submission's user id; and when
\* evaluate() returns, they are those of all submissions that passed.
C24_OneRecordPerPassingSubmission ==
    ~input =>
       /\ Len(assessmentOutputDataList) <= Len(Passing)
       /\ UsersOf(assessmentOutputDataList) =
             SubSeq(Passing, 1, Len(assessmentOutputDataList))
       /\ \A k \in 1..Len(assessmentOutputDataList) :
             ~MustSkip(assessmentOutputDataList[k].user_id)
       /\ pc = "returned" => UsersOf(assessmentOutputDataList) = Passing

\* evaluate() has returned over two submissions, the first one of the
\* denied user 7: the dataset holds the record of user 14 alone
C24_Witness ==
    /\ pc = "returned"
    /\ Len(nodes) = 2
    /\ MustSkip(nodes[1].user)
    /\ UsersOf(assessmentOutputDataList) = <<nodes[2].user>>
    /\ Len(Results(assessmentOutputDataList[1])) = Len(criteria)

=============================================================================
